---- MODULE Spec2Model ----
(***************************************************************************)
(* ConOps Builder v2 (src/app/main.py): the input model and its            *)
(* validators, the legacy reconciler and patch projector (build_patch),    *)
(* the document merger (deep_merge, build_full_spec) and the export        *)
(* handler with its summary (export_spec).                                 *)
(*                                                                         *)
(* Python values are tagged so that isinstance(x, dict) and `x is None`    *)
(* are decidable: None, Num(n), NaN, Str(s), List(seq), Dict(mapping).     *)
(* A dict's mapping is a function from keys (strings) to values; the       *)
(* insertion order of a dict plays no part in Python's equality of dicts   *)
(* and is not modelled.                                                    *)
(***************************************************************************)
EXTENDS Integers, Sequences, FiniteSets, TLC

VARIABLES
    \* -- a request to the service ------------------------------------
    pc,          \* "parsing" | "ready" | "rejected": the request's position
    spec,        \* the ConOpsInput being constructed / handed to the handlers
    error,       \* the ValueError a validator raised, or NoError
    base_spec,   \* the BASE_SPEC file: NotFound or the document it holds
    patch,       \* the document the last build_patch call returned
    full,        \* the document the last build_full_spec call returned
    summary,     \* the summary the last export wrote
    \* -- deep_merge applied to arbitrary documents -------------------
    mbase,       \* the baseline document
    mpatch,      \* the patch document
    mout,        \* the document the merges are applied to, the baseline at first
    mmode,       \* "unset" | "plain" (deep_merge) | "notes" (merge + study.notes)
    merges       \* how many times mpatch was merged

reqvars == <<pc, spec, error, base_spec, patch, full, summary>>
mergevars == <<mbase, mpatch, mout, mmode, merges>>
vars == <<pc, spec, error, base_spec, patch, full, summary,
          mbase, mpatch, mout, mmode, merges>>

(***************************************************************************)
(* Bounds                                                                  *)
(***************************************************************************)
\* the most entities (windows, masks, rules, blocks, overrides) in one request
MaxEntities == 2
\* the most times one patch is merged
MaxMerges == 2
\* the longest list leaf of the documents deep_merge is tried on
MaxListLen == 1

(***************************************************************************)
(* Python values                                                           *)
(***************************************************************************)
None == [t |-> "none"]
NaN == [t |-> "nan"]
Num(n) == [t |-> "num", v |-> n]
Str(s) == [t |-> "str", v |-> s]
List(s) == [t |-> "list", v |-> s]
Dict(m) == [t |-> "dict", m |-> m]

IsDict(x) == x.t = "dict"

\* markers: nothing returned yet, BASE_SPEC.exists() is false, nothing raised
NoDoc == [t |-> "nodoc"]
NotFound == [t |-> "notfound"]
NoError == [t |-> "noerror"]

\* dict.get(k): the value at k, None when the key is missing
Get(d, k) == IF k \in DOMAIN d.m THEN d.m[k] ELSE None

\* d[k] = v on a dict
Put(d, k, v) == Dict([x \in DOMAIN d.m \cup {k} |-> IF x = k THEN v ELSE d.m[x]])

\* float comparison: every comparison with NaN is false
FloatGt(a, b) == a.t = "num" /\ b.t = "num" /\ a.v > b.v
FloatLe(a, b) == a.t = "num" /\ b.t = "num" /\ a.v <= b.v

(***************************************************************************)
(* deep_merge                                                              *)
(***************************************************************************)
RECURSIVE DeepMergeConcat(_, _)
DeepMergeConcat(base, ptch) ==
    IF IsDict(base) /\ IsDict(ptch)
    THEN Dict([k \in DOMAIN base.m \cup DOMAIN ptch.m |->
                 IF k \in DOMAIN ptch.m
                 THEN DeepMergeConcat(Get(base, k), ptch.m[k])
                 ELSE base.m[k]])
    ELSE IF base.t = "list" /\ ptch.t = "list" THEN List(base.v \o ptch.v)
    ELSE IF ptch # None THEN ptch ELSE base

RECURSIVE DeepMergeErase(_, _)
DeepMergeErase(base, ptch) ==
    IF IsDict(base) /\ IsDict(ptch)
    THEN Dict([k \in DOMAIN base.m \cup DOMAIN ptch.m |->
                 IF k \in DOMAIN ptch.m
                 THEN DeepMergeErase(Get(base, k), ptch.m[k])
                 ELSE base.m[k]])
    ELSE ptch

RECURSIVE deep_merge(_, _)
deep_merge(base, ptch) ==
    IF IsDict(base) /\ IsDict(ptch)
    THEN Dict([k \in DOMAIN base.m \cup DOMAIN ptch.m |->
                 IF k \in DOMAIN ptch.m
                 THEN deep_merge(Get(base, k), ptch.m[k])
                 ELSE base.m[k]])
    ELSE IF ptch # None THEN ptch ELSE base

Note == Str("Generated by ConOps Builder v2")
TypeError == [t |-> "TypeError"]

(***************************************************************************)
(* The input model.  An entity is a record of its declared fields, each a  *)
(* tagged Python value, so that model_dump() is the dict of those fields.  *)
(* float fields range over Floats: 0, 1, ... and NaN, which pydantic's     *)
(* float accepts.                                                          *)
(***************************************************************************)
ValueError(msg) == [t |-> "ValueError", msg |-> msg]
IsError(x) == x.t = "ValueError"

Modes == {Str("allow"), Str("deny")}

\* Window.validate_range
validate_range(w) ==
    IF FloatLe(w.end, w.start)
    THEN ValueError("window.end must be > window.start")
    ELSE w

\* WindowMask.validate_mask
validate_mask(w) ==
    IF FloatLe(w.end, w.start)
    THEN ValueError("window_mask.end must be > window_mask.start")
    ELSE IF w.mode \notin Modes
    THEN ValueError("window_mask.mode must be 'allow' or 'deny'")
    ELSE w

\* SourceRule.validate_rule
validate_rule(r) ==
    IF r.mode \notin Modes
    THEN ValueError("source_rule.mode must be 'allow' or 'deny'")
    ELSE r

\* ManualTimeBlock.validate_block
validate_block(b) ==
    IF FloatLe(b.end, b.start)
    THEN ValueError("manual_time_block.end must be > manual_time_block.start")
    ELSE IF b.mode \notin Modes
    THEN ValueError("manual_time_block.mode must be 'allow' or 'deny'")
    ELSE b

\* the constructors, with the field defaults of the classes
Window(name, start, end) ==
    validate_range([t |-> "Window", name |-> name, start |-> start, end |-> end])

WindowMask(name, start, end, mode) ==
    validate_mask([t |-> "WindowMask", name |-> name, start |-> start, end |-> end,
                   mode |-> mode, source_type |-> Str("ground_contact"),
                   source_ref |-> Str("")])

SourceRule(name, mode, source_type, source_ref) ==
    validate_rule([t |-> "SourceRule", name |-> name, mode |-> mode,
                   source_type |-> source_type, source_ref |-> source_ref])

ManualTimeBlock(name, start, end, mode, source_type) ==
    validate_block([t |-> "ManualTimeBlock", name |-> name, start |-> start,
                    end |-> end, mode |-> mode, source_type |-> source_type])

PhasePolicyOverride(phase, autonomy_level, comms_policy) ==
    [t |-> "PhasePolicyOverride", phase |-> phase,
     autonomy_level |-> autonomy_level, comms_policy |-> comms_policy]

Phase(name, order, duration) ==
    [t |-> "Phase", name |-> name, order |-> order, duration |-> duration]

\* BaseModel.model_dump(): the dict of the declared fields
model_dump(e) == Dict([f \in DOMAIN e \ {"t"} |-> e[f]])

DumpAll(seq) == List([i \in 1..Len(seq) |-> model_dump(seq[i])])

\* the ConOpsInput a request starts from: the fields no timing entity or
\* override goes into are held at one value each, the defaults where the
\* class has them
NewConOpsInput ==
    [intent |-> Str("demo"),
     stakeholders |-> Str("ops team"),
     phases |-> <<Phase(Str("cruise"), Num(2), Num(1)), Phase(Str("launch"), Num(1), Num(2))>>,
     windows |-> <<>>,
     window_masks |-> <<>>,
     source_rules |-> <<>>,
     manual_time_blocks |-> <<>>,
     activities |-> <<>>,
     requirement_rules |-> <<>>,
     phase_policy_overrides |-> <<>>,
     timeline_rows |-> <<>>,
     template |-> Str("base"),
     autonomy_level |-> Num(2),
     comms_policy |-> Str("store-and-forward"),
     max_mass_kg |-> Num(200),
     max_power_w |-> Num(500),
     downlink_gb_per_day |-> Num(5)]

(***************************************************************************)
(* build_patch.  `x or []` is x itself when x is non-empty (the list the   *)
(* model holds, so an append to it would change the model) and a fresh     *)
(* list when x is empty.                                                   *)
(***************************************************************************)
OrEmptyAliased(list) == [ref |-> "model", val |-> list]

OrEmpty(list) ==
    IF list # <<>> THEN [ref |-> "model", val |-> list]
    ELSE [ref |-> "fresh", val |-> <<>>]

LegacyAppliesEither(source_rules, manual_blocks, legacy_masks) ==
    (source_rules = <<>> \/ manual_blocks = <<>>) /\ legacy_masks # <<>>

\* if not source_rules and not manual_blocks and legacy_masks
LegacyApplies(source_rules, manual_blocks, legacy_masks) ==
    source_rules = <<>> /\ manual_blocks = <<>> /\ legacy_masks # <<>>

RouteMaskNoElse(w, acc) ==
    IF FloatGt(w.end, w.start)
    THEN LET b == ManualTimeBlock(w.name, w.start, w.end, w.mode, w.source_type)
         IN  IF IsError(b) THEN [acc EXCEPT !.raised = b]
             ELSE [acc EXCEPT !.manual_blocks = Append(@, b)]
    ELSE acc

\* one turn of the loop over the legacy masks; acc holds the two lists
RouteMask(w, acc) ==
    IF FloatGt(w.end, w.start)
    THEN LET b == ManualTimeBlock(w.name, w.start, w.end, w.mode, w.source_type)
         IN  IF IsError(b) THEN [acc EXCEPT !.raised = b]
             ELSE [acc EXCEPT !.manual_blocks = Append(@, b)]
    ELSE LET r == SourceRule(w.name, w.mode, w.source_type, w.source_ref)
         IN  IF IsError(r) THEN [acc EXCEPT !.raised = r]
             ELSE [acc EXCEPT !.source_rules = Append(@, r)]

RECURSIVE RouteAll(_, _, _)
RouteAll(masks, i, acc) ==
    IF i > Len(masks) \/ acc.raised # NoError THEN acc
    ELSE RouteAll(masks, i + 1, RouteMask(masks[i], acc))

\* the document build_patch returns
PatchDoc(s, source_rules, manual_blocks) ==
    Dict([
      study |-> Dict([profile |-> s.template]),
      mission |-> Dict([
        intent |-> s.intent,
        constraints |-> Dict([
          max_mass_kg |-> s.max_mass_kg,
          max_power_w |-> s.max_power_w,
          downlink_gb_per_day |-> s.downlink_gb_per_day,
          autonomy_level |-> s.autonomy_level])]),
      ops_timeline |-> Dict([
        phases |-> DumpAll(s.phases),
        manual_time_blocks |-> DumpAll(manual_blocks),
        activities |-> DumpAll(s.activities),
        timeline_rows |-> List(s.timeline_rows)]),
      operational_contract |-> Dict([
        intent |-> s.intent,
        stakeholders |-> s.stakeholders,
        objectives |-> Dict([profile |-> s.template]),
        phase_policies |-> Dict([
          autonomy_level |-> s.autonomy_level,
          comms_policy |-> s.comms_policy,
          overrides |-> DumpAll(s.phase_policy_overrides)]),
        window_sources |-> DumpAll(source_rules),
        activity_gating_rules |-> DumpAll(s.requirement_rules),
        traceability |-> Dict([notes |-> Str("Declarative ConOps contract; TradeSpaceKit computes feasibility/windows per design point.")])])])

\* build_patch(spec): what it returns (ret, or the exception a constructor
\* raised) and the model as the call leaves it
build_patch(s) ==
    LET legacy_masks == OrEmpty(s.window_masks).val
        source_rules == OrEmpty(s.source_rules)
        manual_blocks == OrEmpty(s.manual_time_blocks)
        start == [source_rules |-> source_rules.val,
                  manual_blocks |-> manual_blocks.val, raised |-> NoError]
        done == IF LegacyApplies(source_rules.val, manual_blocks.val, legacy_masks)
                THEN RouteAll(legacy_masks, 1, start)
                ELSE start
    IN  [ret |-> IF done.raised # NoError THEN done.raised
                 ELSE PatchDoc(s, done.source_rules, done.manual_blocks),
         spec |-> [s EXCEPT
                     !.source_rules =
                         IF source_rules.ref = "model" THEN done.source_rules ELSE @,
                     !.manual_time_blocks =
                         IF manual_blocks.ref = "model" THEN done.manual_blocks ELSE @]]

(***************************************************************************)
(* build_full_spec                                                         *)
(***************************************************************************)
AttachNotesIfMissing(merged) ==
    LET study == IF "study" \in DOMAIN merged.m THEN merged.m["study"] ELSE Dict(<<>>)
    IN  IF IsDict(study)
        THEN Put(merged, "study",
                 IF "notes" \in DOMAIN study.m THEN study ELSE Put(study, "notes", Note))
        ELSE TypeError

\* merged.setdefault("study", {})["notes"] = Note.  Item assignment on a
\* study value that is no dict (None, a number, a list) raises TypeError.
AttachNotes(merged) ==
    LET study == IF "study" \in DOMAIN merged.m THEN merged.m["study"] ELSE Dict(<<>>)
    IN  IF IsDict(study) THEN Put(merged, "study", Put(study, "notes", Note))
        ELSE TypeError

\* build_full_spec(spec) with the BASE_SPEC file holding `base` (NotFound when
\* BASE_SPEC.exists() is false): what it returns, the model as the call leaves
\* it, and its local patch as the call leaves it.  deep_merge hands back the
\* patch's own study dict unless the baseline has a study dict to copy, and the
\* patch itself when the baseline is no dict, so the notes assignment then
\* lands in the local patch too.
build_full_spec(s, base) ==
    LET run == build_patch(s)
        p == run.ret
        merged == deep_merge(base, p)
        noted == AttachNotes(merged)
        shared == ~(IsDict(base) /\ IsDict(Get(base, "study")))
    IN  IF IsError(p) THEN [ret |-> p, spec |-> run.spec, local_patch |-> p]
        ELSE IF base = NotFound THEN [ret |-> p, spec |-> run.spec, local_patch |-> p]
        ELSE [ret |-> noted, spec |-> run.spec,
              local_patch |-> IF shared THEN Put(p, "study", noted.m["study"]) ELSE p]

(***************************************************************************)
(* export_spec: the summary                                                *)
(***************************************************************************)
\* sorted(phases, key=lambda x: x.order): stable, ascending
InsertByOrder(sorted, p) ==
    LET k == Cardinality({i \in 1..Len(sorted) : sorted[i].order.v <= p.order.v})
    IN  SubSeq(sorted, 1, k) \o <<p>> \o SubSeq(sorted, k + 1, Len(sorted))

RECURSIVE SortedByOrder(_)
SortedByOrder(seq) ==
    IF seq = <<>> THEN <<>>
    ELSE InsertByOrder(SortedByOrder(SubSeq(seq, 1, Len(seq) - 1)), seq[Len(seq)])

\* f"- {p.name} (duration={p.duration})"
PhaseLine(p) == <<"- ", p.name, " (duration=", p.duration, ")">>
\* f"- {w.name}: {w.mode} ({w.source_type})"
RuleLine(w) == <<"- ", w.name, ": ", w.mode, " (", w.source_type, ")">>
\* f"- {r.activity_type}: {r.rule} {r.threshold}"
GatingLine(r) == <<"- ", r.activity_type, ": ", r.rule, " ", r.threshold>>
NoneLine == <<"- None">>

\* (lines if seq else "- None")
OrNoneLine(seq, lines) == IF seq # <<>> THEN lines ELSE <<NoneLine>>

\* the summary text, section by section
Summary(s) ==
    [t |-> "summary",
     intent |-> s.intent,
     stakeholders |-> s.stakeholders,
     template |-> s.template,
     policies |-> <<s.autonomy_level, s.comms_policy>>,
     constraints |-> <<s.max_mass_kg, s.max_power_w, s.downlink_gb_per_day>>,
     phases |-> LET ps == SortedByOrder(s.phases)
                IN  [i \in 1..Len(ps) |-> PhaseLine(ps[i])],
     window_source_rules |->
         OrNoneLine(s.source_rules,
                    [i \in 1..Len(s.source_rules) |-> RuleLine(s.source_rules[i])]),
     gating_rules |->
         OrNoneLine(s.requirement_rules,
                    [i \in 1..Len(s.requirement_rules) |-> GatingLine(s.requirement_rules[i])])]

(***************************************************************************)
(* The documents deep_merge is tried on: mappings with the keys "a" and    *)
(* "study", each absent or bound to a leaf or to a nested mapping ("a"     *)
(* over the keys "b" and "c", "study" over "notes").  The leaves are None, *)
(* the scalars 0..2 and the lists [0], [0, 0], ... up to MaxListLen.       *)
(***************************************************************************)
Scalars == {Num(0), Num(1), Num(2)}
ListLeaves == {List([i \in 1..n |-> Num(0)]) : n \in 1..MaxListLen}
Leaves == {None} \cup Scalars \cup ListLeaves

DictsOver(keys, vals) == {Dict(f) : f \in UNION {[d -> vals] : d \in SUBSET keys}}

ValuesAt(k) ==
    Leaves \cup (IF k = "study" THEN DictsOver({"notes"}, Leaves)
                 ELSE DictsOver({"b", "c"}, Leaves))

Docs ==
    {Dict(f) : f \in UNION {{g \in [d -> ValuesAt("a") \cup ValuesAt("study")] :
                                \A k \in d : g[k] \in ValuesAt(k)} :
                            d \in SUBSET {"a", "study"}}}

(***************************************************************************)
(* deep_merge as a state machine: a baseline and a patch are drawn, and    *)
(* the patch is merged into the running result, either bare (deep_merge)   *)
(* or the way build_full_spec does it (merge, then attach study.notes).    *)
(***************************************************************************)
IdleRequest ==
    /\ pc = "parsing" /\ spec = NewConOpsInput /\ error = NoError /\ base_spec = NotFound
    /\ patch = NoDoc /\ full = NoDoc /\ summary = NoDoc

InitMerge ==
    /\ IdleRequest
    /\ mbase \in Docs \cup {None}
    /\ mpatch \in Docs
    /\ mout = mbase
    /\ mmode = "unset"
    /\ merges = 0

Merge ==
    /\ mmode \in {"unset", "plain"}
    /\ merges < MaxMerges
    /\ mout' = deep_merge(mout, mpatch)
    /\ mmode' = "plain"
    /\ merges' = merges + 1
    /\ UNCHANGED <<mbase, mpatch>>
    /\ UNCHANGED reqvars

MergeWithNotes ==
    /\ mmode \in {"unset", "notes"}
    /\ merges < MaxMerges
    /\ mout # TypeError
    /\ mout' = AttachNotes(deep_merge(mout, mpatch))
    /\ mmode' = "notes"
    /\ merges' = merges + 1
    /\ UNCHANGED <<mbase, mpatch>>
    /\ UNCHANGED reqvars

NextMerge == Merge \/ MergeWithNotes

SpecMerge == InitMerge /\ [][NextMerge]_vars

(***************************************************************************)
(* A request: pydantic constructs the entities of the payload one by one   *)
(* (the first validator that raises rejects the request), the ConOpsInput  *)
(* is complete, and the handler's functions run on it.                     *)
(***************************************************************************)
Floats == {Num(0), Num(1), NaN}
RawModes == Modes \cup {Str("block")}
Levels == {None, Num(3)}
Policies == {None, Str("realtime")}

\* what mission.yaml may hold: nothing (BASE_SPEC missing), an empty file
\* (safe_load gives None), a mapping whose study is no mapping, and a
\* mission with its own study notes and phase-policy overrides
MissionYaml ==
    Dict([
      study |-> Dict([name |-> Str("trade"), notes |-> Str("hand-written")]),
      platform |-> Dict([bus |-> Str("6U")]),
      operational_contract |-> Dict([
        phase_policies |-> Dict([
          comms_policy |-> Str("relay"),
          overrides |-> List(<<Dict([phase |-> Str("launch"),
                                     autonomy_level |-> Num(1),
                                     comms_policy |-> Str("relay")])>>)])])])

BaseSpecs ==
    {NotFound, None, Dict([study |-> Str("trade")]), MissionYaml}

EntityCount(s) ==
    Len(s.windows) + Len(s.window_masks) + Len(s.source_rules)
        + Len(s.manual_time_blocks) + Len(s.phase_policy_overrides)

Init ==
    /\ pc = "parsing"
    /\ spec = NewConOpsInput
    /\ error = NoError
    /\ base_spec \in BaseSpecs
    /\ patch = NoDoc /\ full = NoDoc /\ summary = NoDoc
    /\ mbase = NoDoc /\ mpatch = NoDoc /\ mout = NoDoc
    /\ mmode = "unset" /\ merges = 0

\* the entity e, or the error its validator raised, goes into the field
Construct(field, e) ==
    /\ IF IsError(e)
       THEN pc' = "rejected" /\ error' = e /\ spec' = spec
       ELSE spec' = [spec EXCEPT ![field] = Append(@, e)] /\ UNCHANGED <<pc, error>>
    /\ UNCHANGED <<base_spec, patch, full, summary>>
    /\ UNCHANGED mergevars

NewWindow ==
    /\ pc = "parsing"
    /\ EntityCount(spec) < MaxEntities
    /\ \E start \in Floats, end \in Floats :
           Construct("windows", Window(Str("w"), start, end))

NewWindowMask ==
    /\ pc = "parsing"
    /\ EntityCount(spec) < MaxEntities
    /\ \E start \in Floats, end \in Floats, mode \in RawModes :
           Construct("window_masks", WindowMask(Str("w"), start, end, mode))

NewSourceRule ==
    /\ pc = "parsing"
    /\ EntityCount(spec) < MaxEntities
    /\ \E mode \in RawModes :
           Construct("source_rules",
                     SourceRule(Str("w"), mode, Str("ground_contact"), Str("dsn")))

NewManualTimeBlock ==
    /\ pc = "parsing"
    /\ EntityCount(spec) < MaxEntities
    /\ \E start \in Floats, end \in Floats, mode \in RawModes :
           Construct("manual_time_blocks",
                     ManualTimeBlock(Str("w"), start, end, mode, Str("manual")))

NewPhasePolicyOverride ==
    /\ pc = "parsing"
    /\ EntityCount(spec) < MaxEntities
    /\ \E level \in Levels, policy \in Policies :
           Construct("phase_policy_overrides",
                     PhasePolicyOverride(Str("launch"), level, policy))

\* every entity of the payload validated: the handler gets the model
Accept ==
    /\ pc = "parsing"
    /\ pc' = "ready"
    /\ UNCHANGED <<spec, error, base_spec, patch, full, summary>>
    /\ UNCHANGED mergevars

BuildPatch ==
    /\ pc = "ready"
    /\ LET run == build_patch(spec)
       IN  patch' = run.ret /\ spec' = run.spec
    /\ UNCHANGED <<pc, error, base_spec, full, summary>>
    /\ UNCHANGED mergevars

BuildFullSpec ==
    /\ pc = "ready"
    /\ LET run == build_full_spec(spec, base_spec)
       IN  full' = run.ret /\ spec' = run.spec
    /\ UNCHANGED <<pc, error, base_spec, patch, summary>>
    /\ UNCHANGED mergevars

\* POST /export: the full spec, then the patch, then the summary, each
\* written to its file under EXPORTS
ExportSpec ==
    /\ pc = "ready"
    /\ LET first == build_full_spec(spec, base_spec)
           second == build_patch(first.spec)
       IN  /\ full' = first.ret
           /\ patch' = second.ret
           /\ summary' = Summary(second.spec)
           /\ spec' = second.spec
    /\ UNCHANGED <<pc, error, base_spec>>
    /\ UNCHANGED mergevars

Next ==
    \/ NewWindow
    \/ NewWindowMask
    \/ NewSourceRule
    \/ NewManualTimeBlock
    \/ NewPhasePolicyOverride
    \/ Accept
    \/ BuildPatch
    \/ BuildFullSpec
    \/ ExportSpec

Spec == Init /\ [][Next]_vars

(***************************************************************************)
(* Claims about deep_merge (checked under SpecMerge)                       *)
(***************************************************************************)
BothDicts(x, y) == IsDict(x) /\ IsDict(y)

\* the deep-merge rule of the specification, for a result r of merging the
\* mapping p into the mapping b
RECURSIVE FollowsMergeRule(_, _, _)
FollowsMergeRule(b, p, r) ==
    /\ IsDict(r)
    /\ DOMAIN r.m = DOMAIN b.m \cup DOMAIN p.m
    /\ \A k \in DOMAIN p.m :
         /\ BothDicts(Get(b, k), p.m[k]) => FollowsMergeRule(b.m[k], p.m[k], r.m[k])
         /\ (~BothDicts(Get(b, k), p.m[k]) /\ p.m[k] # None) => r.m[k] = p.m[k]
         /\ p.m[k] = None => r.m[k] = Get(b, k)
    /\ \A k \in DOMAIN b.m \ DOMAIN p.m : r.m[k] = b.m[k]

\* C1: the result of deep_merge(B, P) on two mappings follows the deep-merge
\* rule at every nesting level: a key of P whose values in B and P are both
\* mappings holds their recursive merge; otherwise a value of P that is not
\* None replaces the baseline's outright (lists are not concatenated); a None
\* of P leaves the baseline's value; the keys P does not mention keep theirs.
C1_DeepMergeRule ==
    (mmode = "plain" /\ merges = 1 /\ IsDict(mbase)) =>
        FollowsMergeRule(mbase, mpatch, mout)

\* the example of the specification: {a: {b: 1}} into {a: {b: 0, c: 2}}
C1_Witness ==
    /\ mmode = "plain" /\ merges = 1
    /\ mbase = Dict([a |-> Dict([b |-> Num(0), c |-> Num(2)])])
    /\ mpatch = Dict([a |-> Dict([b |-> Num(1)])])
    /\ mout = Dict([a |-> Dict([b |-> Num(1), c |-> Num(2)])])

\* C2: merging is idempotent: once a patch was merged into a baseline,
\* merging the same patch again gives the same document, for deep_merge alone
\* and for deep_merge followed by the study.notes attachment.
C2_MergeIdempotent ==
    merges >= 2 =>
        mout = IF mmode = "plain" THEN deep_merge(mbase, mpatch)
               ELSE AttachNotes(deep_merge(mbase, mpatch))

\* a second merge, with the notes attached, of a patch that holds a None, a
\* nested mapping over a scalar of the baseline and a key the baseline lacks
C2_Witness ==
    /\ merges = 2 /\ mmode = "notes" /\ mout # TypeError
    /\ IsDict(mbase) /\ "study" \notin DOMAIN mbase.m
    /\ Get(mbase, "a") \in Scalars
    /\ IsDict(Get(mpatch, "a")) /\ "b" \in DOMAIN mpatch.m["a"].m
    /\ mpatch.m["a"].m["b"] = None
    /\ IsDict(Get(mpatch, "study"))

(***************************************************************************)
(* Claims about a request (checked under Spec)                             *)
(***************************************************************************)
WindowSources(p) == p.m["operational_contract"].m["window_sources"].v
ManualBlocks(p) == p.m["ops_timeline"].m["manual_time_blocks"].v
Overrides(d) ==
    LET contract == IF IsDict(d) THEN Get(d, "operational_contract") ELSE None
        policies == IF IsDict(contract) THEN Get(contract, "phase_policies") ELSE None
        list == IF IsDict(policies) THEN Get(policies, "overrides") ELSE None
    IN  IF list.t = "list" THEN list.v ELSE <<>>

Range(seq) == {seq[i] : i \in 1..Len(seq)}

LegacyOnly(s) ==
    s.source_rules = <<>> /\ s.manual_time_blocks = <<>> /\ s.window_masks # <<>>

\* what a manual block, and a source rule, carrying a mask's fields look like
BlockOfMask(w) ==
    Dict([name |-> w.name, start |-> w.start, end |-> w.end, mode |-> w.mode,
          source_type |-> w.source_type])
RuleOfMask(w) ==
    Dict([name |-> w.name, mode |-> w.mode, source_type |-> w.source_type,
          source_ref |-> w.source_ref])

BlocksOfMasks(masks) == [i \in 1..Len(masks) |-> BlockOfMask(masks[i])]
RulesOfMasks(masks) == [i \in 1..Len(masks) |-> RuleOfMask(masks[i])]

\* C3: when the input's source_rules or manual_time_blocks is non-empty, the
\* window masks are ignored: window_sources is exactly the input's
\* source_rules and manual_time_blocks exactly the input's manual_time_blocks.
C3_NewFormatTakesPrecedence ==
    (IsDict(patch) /\ (spec.source_rules # <<>> \/ spec.manual_time_blocks # <<>>)) =>
        /\ WindowSources(patch) = DumpAll(spec.source_rules).v
        /\ ManualBlocks(patch) = DumpAll(spec.manual_time_blocks).v

C3_Witness ==
    /\ IsDict(patch)
    /\ spec.window_masks # <<>>
    /\ spec.source_rules # <<>>
    /\ spec.manual_time_blocks = <<>>

\* C4: given only window masks, manual_time_blocks holds one entry per mask,
\* in order, with the mask's name, start, end, mode and source_type, and
\* window_sources is empty.
C4_LegacyMasksBecomeBlocks ==
    (IsDict(patch) /\ LegacyOnly(spec)) =>
        /\ ManualBlocks(patch) = BlocksOfMasks(spec.window_masks)
        /\ WindowSources(patch) = <<>>

\* the masks, in order, that dest sends to `kind`
RECURSIVE Picked(_, _, _)
Picked(masks, dest, kind) ==
    IF masks = <<>> THEN <<>>
    ELSE LET n == Len(masks)
             front == Picked(SubSeq(masks, 1, n - 1), SubSeq(dest, 1, n - 1), kind)
         IN  IF dest[n] = kind THEN Append(front, masks[n]) ELSE front

\* every mask has one destination, and the patch's two lists are the input's
\* own entries followed by what the masks sent there became
EachMaskRoutedOnce(s, p) ==
    \E dest \in [1..Len(s.window_masks) -> {"block", "rule"}] :
        /\ ManualBlocks(p) = DumpAll(s.manual_time_blocks).v
               \o BlocksOfMasks(Picked(s.window_masks, dest, "block"))
        /\ WindowSources(p) = DumpAll(s.source_rules).v
               \o RulesOfMasks(Picked(s.window_masks, dest, "rule"))

\* C5 as claimed: for every accepted input, every window mask yields one
\* entry of manual_time_blocks or one entry of window_sources, never both and
\* never neither.
C5_EveryMaskRouted == IsDict(patch) => EachMaskRoutedOnce(spec, patch)

\* C5 as amended: for every accepted input whose source_rules and
\* manual_time_blocks are both empty, every window mask yields one entry of
\* manual_time_blocks or one entry of window_sources, never both and never
\* neither.
C5_LegacyMaskRouted ==
    (IsDict(patch) /\ LegacyOnly(spec)) => EachMaskRoutedOnce(spec, patch)

\* two masks, one routed to each destination
C5_Witness ==
    /\ IsDict(patch) /\ LegacyOnly(spec)
    /\ Len(ManualBlocks(patch)) = 1
    /\ Len(WindowSources(patch)) = 1

HasNote(d) ==
    /\ IsDict(d)
    /\ IsDict(Get(d, "study"))
    /\ Get(d.m["study"], "notes") = Note

\* C6 as claimed: the full specification always carries the study note,
\* whatever the baseline loader reports.
C6_NoteAlways == full # NoDoc => HasNote(full)

\* C6 as amended: whenever the baseline document exists, the full
\* specification carries study.notes = "Generated by ConOps Builder v2",
\* over any note of the baseline; when it does not exist, the full
\* specification is the patch document alone, whose study has no notes.
C6_NoteWhenBaseline ==
    full # NoDoc =>
        IF base_spec # NotFound THEN HasNote(full)
        ELSE /\ full = build_patch(spec).ret
             /\ "notes" \notin DOMAIN full.m["study"].m

C6_Witness ==
    /\ base_spec = MissionYaml
    /\ HasNote(full)
    /\ full.m["study"].m["name"] = Str("trade")

OptionalFields == {"autonomy_level", "comms_policy"}

\* C7: an override's unset field does not overwrite the baseline: the value
\* the baseline's overrides hold for it is still in the merged overrides, and
\* no None stands there.
C7_AbsentFieldKeepsBaseline ==
    (IsDict(full) /\ Overrides(base_spec) # <<>>) =>
        \A o \in Range(spec.phase_policy_overrides), f \in OptionalFields :
            o[f] = None =>
                /\ \A b \in Range(Overrides(base_spec)) :
                       \E e \in Range(Overrides(full)) : Get(e, f) = Get(b, f)
                /\ \A e \in Range(Overrides(full)) : Get(e, f) # None

\* C8: every timing entity of an accepted input, and every manual block of a
\* patch built from it, has end > start and a mode of allow or deny.
C8_AcceptedEntitiesWellFormed ==
    pc = "ready" =>
        /\ \A w \in Range(spec.windows) \cup Range(spec.window_masks)
                    \cup Range(spec.manual_time_blocks) : FloatGt(w.end, w.start)
        /\ \A w \in Range(spec.window_masks) \cup Range(spec.source_rules)
                    \cup Range(spec.manual_time_blocks) : w.mode \in Modes
        /\ IsDict(patch) =>
               \A b \in Range(ManualBlocks(patch)) :
                   FloatGt(b.m["end"], b.m["start"]) /\ b.m["mode"] \in Modes

\* C9: build_patch, build_full_spec and export_spec leave the model as it
\* was; a further build_patch returns the document the one before returned;
\* and the study of that document holds the profile alone.
C9_NoSideEffects ==
    [][pc = "ready" =>
         /\ spec' = spec
         /\ IsDict(patch) => patch' = patch
         /\ IsDict(patch') => patch'.m["study"] = Dict([profile |-> spec.template])
      ]_vars

\* an export ran on a model whose masks are converted, against a baseline
\* whose merge hands back the patch itself
C9_Witness ==
    /\ pc = "ready" /\ LegacyOnly(spec)
    /\ IsDict(patch) /\ ManualBlocks(patch) # <<>>
    /\ base_spec = None /\ HasNote(full)
    /\ summary # NoDoc

RuleLineOfEntry(e) == <<"- ", e.m["name"], ": ", e.m["mode"], " (", e.m["source_type"], ")">>

\* C10: the summary's Window Source Rules section lists exactly the patch's
\* window_sources, in order, and shows "- None" iff that list is empty.
C10_SummaryAgreesWithPatch ==
    summary # NoDoc =>
        LET sources == WindowSources(patch)
            section == summary.window_source_rules
        IN  /\ sources # <<>> =>
                   section = [i \in 1..Len(sources) |-> RuleLineOfEntry(sources[i])]
            /\ (section = <<NoneLine>>) <=> (sources = <<>>)

====
